---- MODULE Spec2Model ----
(***************************************************************************)
(* PhoGG (photo gallery generator): the photo ingestion and rendering       *)
(* pipeline of src/src/photo_processor.py, driven by src/src/cli.py.        *)
(*                                                                         *)
(* Three specifications share the module:                                  *)
(*   SpecSize     get_limited_size on bounded source sizes, with Python's  *)
(*                float arithmetic (IEEE 754 binary64) modelled bit-exact; *)
(*   SpecSidecar  read_description_file on bounded sidecar contents;       *)
(*   Spec         the command line run: create_site_directory,             *)
(*                process_photos step by step, generate_site.              *)
(***************************************************************************)
EXTENDS Integers, Sequences, FiniteSets, TLC

VARIABLES
    image,          \* SpecSize: the source image's (width, height)
    max_size,       \* SpecSize: the bounding box handed to get_limited_size
    new_size,       \* SpecSize: the result of get_limited_size, or NoValue
    sidecar,        \* SpecSidecar: the description file: <<>> if missing, else <<text>>
    title_and_description,
                    \* the result of read_description_file, or NoValue
    pc,             \* Spec: the step the command line run is at
    run,            \* Spec: 1 for the first run, 2 for the run repeated on the same source
    source_readable,\* Spec: whether the source directory exists and can be listed
    source_files,   \* Spec: the source directory: file name -> [mime, size, exif]
    output_format,  \* Spec: --output-format
    dirs,           \* Spec: the directories that exist at or under the destination
    created,        \* Spec: the directories this run created, in the order of creation
    files,          \* Spec: the rendition files written: path -> [source, size, format]
    queue,          \* Spec: the sources find_photos returned that are not yet done
    exif_data,      \* Spec: the EXIF data of the source being processed
    k,              \* Spec: index of the next target directory / resolution
    photos,         \* Spec: the Photo records appended so far
    result,         \* Spec: what process_photos returned: None, or Some(list)
    stats,          \* Spec: what print_statistics printed: None, or Some(record)
    error,          \* Spec: the exception that reached the command line: None, or Some(kind)
    site_generated, \* Spec: whether generate_site was called and completed
    previous        \* Spec: the first run's output files (path -> size), in the second run

\* "not computed yet"
NoValue == <<>>

\* Python's None and a present value, for MaybeString
None == <<>>
Some(v) == <<v>>

(***************************************************************************)
(* Python floats.  A positive float is [m, e] with 2^52 <= m < 2^53 and    *)
(* value m * 2^e.  The mantissa does not fit TLC's 32-bit integers: it is  *)
(* kept as NumLimbs limbs of 15 bits each (LimbBase), least significant first.  *)
(***************************************************************************)
NumLimbs == 5
LimbBase == 32768

Limbs == 1..NumLimbs

\* the limbs f[1], ..., f[NumLimbs] as a tuple (evaluated once, not on every use)
RECURSIVE BigFrom(_, _)
BigFrom(f, i) == IF i > NumLimbs THEN <<>> ELSE <<f[i]>> \o BigFrom(f, i + 1)

Big(f) == BigFrom(f, 1)

\* the natural number n (n < LimbBase^2) as limbs
BigOfInt(n) ==
    Big([i \in Limbs |-> IF i = 1 THEN n % LimbBase
                         ELSE IF i = 2 THEN (n \div LimbBase) % LimbBase
                         ELSE 0])

\* 2^b as limbs (15 bits per limb)
BigPow2(b) ==
    Big([i \in Limbs |-> IF i = (b \div 15) + 1 THEN 2^(b % 15) ELSE 0])

RECURSIVE BigGeqFrom(_, _, _)
BigGeqFrom(a, b, i) ==
    IF i = 0 THEN TRUE
    ELSE IF a[i] # b[i] THEN a[i] > b[i]
    ELSE BigGeqFrom(a, b, i - 1)

BigGeq(a, b) == BigGeqFrom(a, b, NumLimbs)

BigIsZero(a) == \A i \in Limbs : a[i] = 0

BigOdd(a) == a[1] % 2 = 1

\* a \div 2
BigHalf(a) ==
    Big([i \in Limbs |->
        (a[i] \div 2) + (IF i < NumLimbs /\ a[i + 1] % 2 = 1 THEN LimbBase \div 2 ELSE 0)])

\* 2 * a  (the top limb's carry is dropped: callers keep a < 2^74)
BigDouble(a) ==
    Big([i \in Limbs |->
        ((2 * a[i]) % LimbBase) + (IF i > 1 /\ a[i - 1] >= LimbBase \div 2 THEN 1 ELSE 0)])

\* borrow into limb i of a - b
RECURSIVE Borrow(_, _, _)
Borrow(a, b, i) ==
    IF i = 1 THEN 0
    ELSE IF a[i - 1] - b[i - 1] - Borrow(a, b, i - 1) < 0 THEN 1 ELSE 0

\* a - b, for a >= b
BigSub(a, b) ==
    Big([i \in Limbs |-> (a[i] - b[i] - Borrow(a, b, i) + LimbBase) % LimbBase])

\* carry into limb i of a * n
RECURSIVE MulCarry(_, _, _)
MulCarry(a, n, i) ==
    IF i = 1 THEN 0
    ELSE (a[i - 1] * n + MulCarry(a, n, i - 1)) \div LimbBase

\* a * n, for a small natural n (n < 2^15)
BigMulSmall(a, n) ==
    Big([i \in Limbs |-> (a[i] * n + MulCarry(a, n, i)) % LimbBase])

\* a + 1
BigSucc(a) ==
    Big([i \in Limbs |->
        IF \A j \in 1..(i - 1) : a[j] = LimbBase - 1
        THEN (a[i] + 1) % LimbBase
        ELSE a[i]])

\* a as a TLC integer, for a < 2^30
BigToInt(a) == a[1] + LimbBase * a[2]

(***************************************************************************)
(* Rounding to nearest, ties to even: the integer q * 2^e, with `guard`    *)
(* the first bit already shifted out and `sticky` whether any lower bit    *)
(* was set, brought to a 53-bit mantissa.                                  *)
(***************************************************************************)
RECURSIVE RoundNearestEven(_, _, _, _)
RoundNearestEven(q, e, guard, sticky) ==
    IF BigGeq(q, BigPow2(53))
    THEN RoundNearestEven(BigHalf(q), e + 1, BigOdd(q), sticky \/ guard)
    ELSE IF guard /\ (sticky \/ BigOdd(q))
         THEN LET up == BigSucc(q)
              IN  IF BigGeq(up, BigPow2(53))
                  THEN [m |-> BigHalf(up), e |-> e + 1]
                  ELSE [m |-> up, e |-> e]
         ELSE [m |-> q, e |-> e]

\* float(n) for an integer 1 <= n < 2^30: exact
RECURSIVE Normalize(_, _)
Normalize(q, e) ==
    IF BigGeq(q, BigPow2(52)) THEN [m |-> q, e |-> e]
    ELSE Normalize(BigDouble(q), e - 1)

FloatOfInt(n) == Normalize(BigOfInt(n), 0)

(***************************************************************************)
(* x / y: binary long division of the mantissas, one quotient bit a step,  *)
(* until the quotient has 55 significant bits; a remainder left over is    *)
(* the sticky bit.  After n steps q = floor(x.m * 2^(n-1) / y.m).          *)
(***************************************************************************)
LongDivStep(s, d) ==
    IF BigGeq(s.r, d)
    THEN [r |-> BigDouble(BigSub(s.r, d)), q |-> BigSucc(BigDouble(s.q)), n |-> s.n + 1]
    ELSE [r |-> BigDouble(s.r), q |-> BigDouble(s.q), n |-> s.n + 1]

RECURSIVE LongDiv(_, _)
LongDiv(s, d) ==
    IF BigGeq(s.q, BigPow2(54)) THEN s ELSE LongDiv(LongDivStep(s, d), d)

FloatDiv(x, y) ==
    LET res == LongDiv([r |-> x.m, q |-> BigOfInt(0), n |-> 0], y.m)
    IN  RoundNearestEven(res.q, x.e - y.e - (res.n - 1), FALSE, ~BigIsZero(res.r))

\* float(n) * y for a small integer n: the exact product, rounded once
FloatMulInt(n, y) ==
    RoundNearestEven(BigMulSmall(y.m, n), y.e, FALSE, FALSE)

\* int(x): truncation towards zero, for 0 < x < 2^30
RECURSIVE Truncate(_, _)
Truncate(q, e) ==
    IF BigIsZero(q) THEN 0
    ELSE IF e >= 0 THEN BigToInt(q)
    ELSE Truncate(BigHalf(q), e + 1)

FloatToInt(x) == Truncate(x.m, x.e)

(***************************************************************************)
(* Resizer                                                                 *)
(***************************************************************************)
TARGET_RESOLUTIONS == << <<1920, 1080>>, <<1280, 720>>, <<640, 360>>, <<320, 180>> >>

\* a square source taken for a landscape one (the code takes it for a portrait one)
is_landscape_orientation_or_square(img) == img[1] >= img[2]

is_landscape_orientation(img) == img[1] > img[2]

get_limited_size(img, box) ==
    LET width == box[1]
        height == box[2]
        aspect_ratio == FloatDiv(FloatOfInt(img[1]), FloatOfInt(img[2]))
    IN  IF is_landscape_orientation(img)
        THEN <<width, FloatToInt(FloatDiv(FloatOfInt(width), aspect_ratio))>>
        ELSE <<FloatToInt(FloatMulInt(height, aspect_ratio)), height>>

(***************************************************************************)
(* MetadataReader: read_description_file.  Text is a sequence of one-      *)
(* character strings.                                                      *)
(***************************************************************************)
Whitespace == {" ", "\n"}

\* str.strip(): leading and trailing whitespace removed
RECURSIVE lstrip(_)
lstrip(s) == IF s # <<>> /\ Head(s) \in Whitespace THEN lstrip(Tail(s)) ELSE s

RECURSIVE rstrip(_)
rstrip(s) ==
    IF s # <<>> /\ s[Len(s)] \in Whitespace THEN rstrip(SubSeq(s, 1, Len(s) - 1)) ELSE s

strip(s) == lstrip(rstrip(s))

\* file.readlines(): the lines of the text, each with its line end kept
RECURSIVE readlines(_)
readlines(text) ==
    IF text = <<>> THEN <<>>
    ELSE LET ends == {i \in 1..Len(text) : text[i] = "\n"}
             n == IF ends = {} THEN Len(text)
                  ELSE CHOOSE i \in ends : \A j \in ends : i <= j
         IN  <<SubSeq(text, 1, n)>> \o readlines(SubSeq(text, n + 1, Len(text)))

\* file: <<>> when photo_path.with_suffix(".txt") is no file, else <<its text>>
read_description_file(file) ==
    IF file # <<>>
    THEN LET lines == readlines(file[1])
             title == IF Len(lines) > 0 THEN Some(strip(lines[1])) ELSE None
             description == IF Len(lines) > 1 THEN Some(strip(lines[2])) ELSE None
         IN  <<title, description>>
    ELSE <<None, None>>

(***************************************************************************)
(* Strings and paths.  A string is a sequence of one-character strings, a  *)
(* path a sequence of components (strings).                                *)
(***************************************************************************)
Digits == <<"0", "1", "2", "3", "4", "5", "6", "7", "8", "9">>
UpperCase == <<"A", "B", "C", "D", "E", "F", "G", "H", "I", "J", "K", "L", "M",
               "N", "O", "P", "Q", "R", "S", "T", "U", "V", "W", "X", "Y", "Z">>
LowerCase == <<"a", "b", "c", "d", "e", "f", "g", "h", "i", "j", "k", "l", "m",
               "n", "o", "p", "q", "r", "s", "t", "u", "v", "w", "x", "y", "z">>

Range(seq) == {seq[i] : i \in DOMAIN seq}
IndexOf(seq, c) == CHOOSE i \in DOMAIN seq : seq[i] = c

\* ord(c), for the characters file names are made of here
CodePoint(c) ==
    IF c \in Range(Digits) THEN 47 + IndexOf(Digits, c)
    ELSE IF c \in Range(UpperCase) THEN 64 + IndexOf(UpperCase, c)
    ELSE IF c \in Range(LowerCase) THEN 96 + IndexOf(LowerCase, c)
    ELSE 46

\* s < t on Python strings: lexicographic by code point
RECURSIVE StrLess(_, _)
StrLess(s, t) ==
    IF t = <<>> THEN FALSE
    ELSE IF s = <<>> THEN TRUE
    ELSE IF Head(s) = Head(t) THEN StrLess(Tail(s), Tail(t))
    ELSE CodePoint(Head(s)) < CodePoint(Head(t))

\* str.lower()
lower(s) ==
    [i \in DOMAIN s |->
        IF s[i] \in Range(UpperCase) THEN LowerCase[IndexOf(UpperCase, s[i])] ELSE s[i]]

\* str(n) for a natural number n
RECURSIVE str_int(_)
str_int(n) ==
    IF n < 10 THEN <<Digits[n + 1]>> ELSE str_int(n \div 10) \o <<Digits[(n % 10) + 1]>>

\* p / component
Join(p, component) == Append(p, component)

\* p.name and p.parent
name(p) == p[Len(p)]
parent(p) == SubSeq(p, 1, Len(p) - 1)

\* PurePath.suffix of a file name: from the last dot, unless the dot leads or ends it
suffix(n) ==
    LET dots == {i \in DOMAIN n : n[i] = "."}
        last == IF dots = {} THEN 0 ELSE CHOOSE i \in dots : \A j \in dots : j <= i
    IN  IF 1 < last /\ last < Len(n) THEN SubSeq(n, last, Len(n)) ELSE <<>>

\* p.with_suffix(new): the name's suffix replaced, or added when it has none
with_suffix(p, new) ==
    Join(parent(p), SubSeq(name(p), 1, Len(name(p)) - Len(suffix(name(p)))) \o new)

(***************************************************************************)
(* The command line's arguments and the source directory.                  *)
(***************************************************************************)
SUPPORTED_INPUT_TYPES == {"image/jpeg"}
SUPPORTED_OUTPUT_TYPES == {<<"J", "P", "E", "G">>, <<"W", "E", "B", "P">>}

destination_dir == << <<"s", "i", "t", "e">> >>
source_dir == << <<"p", "h", "o", "t", "o", "s">> >>

MaxPhotos == 3

\* a.jpg, b.jpg, c.jpg, ...
PhotoNames == {<<LowerCase[i], ".", "j", "p", "g">> : i \in 1..MaxPhotos}

\* what a file of the source directory may be: a camera JPEG with EXIF tags (one
\* in ExifTags.TAGS, one not), a portrait JPEG without EXIF, a PNG named .jpg
SampleFiles ==
    { [mime |-> "image/jpeg", size |-> <<4000, 3000>>, exif |-> {271, 59999}],
      [mime |-> "image/jpeg", size |-> <<700, 1000>>, exif |-> {}],
      [mime |-> "image/png", size |-> <<640, 480>>, exif |-> {}] }

\* the sidecars a source may have: none, or title and description lines
SampleSidecars == { <<>>, << <<"a", " ", "\n", "a", "\n">> >> }

\* is_image: the content's type is a supported one
is_image(entry) == entry.mime \in {"image/jpeg"}

\* find_photos: the files of the directory that are images, in the order iterdir
\* yields them, which is any order
find_photos(entries) ==
    LET found == {n \in DOMAIN entries : is_image(entries[n])}
    IN  {order \in [1..Cardinality(found) -> found] :
            \A i, j \in DOMAIN order : i # j => order[i] # order[j]}

(***************************************************************************)
(* MetadataReader: read_exif                                               *)
(***************************************************************************)
\* the tag codes of ExifTags.TAGS that the sample files use
ExifTagNames == [code \in {271} |-> "Make"]

read_exif(raw) == {ExifTagNames[code] : code \in raw \cap DOMAIN ExifTagNames}

(***************************************************************************)
(* RenditionSet and the Photo record                                       *)
(***************************************************************************)
max_widths == [i \in DOMAIN TARGET_RESOLUTIONS |-> TARGET_RESOLUTIONS[i][1]]

\* the target directories with the last one left out (the code creates all four)
target_dirs_but_last ==
    [i \in 1..(Len(max_widths) - 1) |->
        Join(Join(destination_dir, <<"i", "m", "g">>), str_int(max_widths[i]))]

\* create_image_directories: the directories to create, in order
target_dirs ==
    [i \in DOMAIN max_widths |->
        Join(Join(destination_dir, <<"i", "m", "g">>), str_int(max_widths[i]))]

\* create_image_directories: dict(zip(max_widths, target_dirs))
destination_dirs ==
    [w \in Range(max_widths) |->
        Join(Join(destination_dir, <<"i", "m", "g">>), str_int(w))]

\* the sizes resize_image computes for the sample files, computed once
RECURSIVE SizeRows(_, _)
SizeRows(todo, boxes) ==
    IF todo = {} THEN <<>>
    ELSE LET s == CHOOSE x \in todo : TRUE
         IN  <<[size |-> s, new |-> [i \in DOMAIN boxes |-> get_limited_size(s, boxes[i])]]>>
             \o SizeRows(todo \ {s}, boxes)

SampleNewSizes == SizeRows({f.size : f \in SampleFiles}, TARGET_RESOLUTIONS)

new_size_of(size, i) ==
    (CHOOSE row \in Range(SampleNewSizes) : row.size = size).new[i]

\* process_photos hands resize_images the source directory, not the source file
resize_images_source(source) == source_dir

\* resize_image: the file the rendition for resolution i is saved to
new_name(source, i, format) ==
    with_suffix(Join(destination_dirs[TARGET_RESOLUTIONS[i][1]], name(resize_images_source(source))),
                <<".">> \o lower(format))

\* resize_images returns nothing: the Photo is given the directories
photo_paths(source, format) == destination_dirs

Photo(t_and_d, paths, exif) ==
    [title |-> t_and_d[1], description |-> t_and_d[2], paths |-> paths, exif |-> exif]

\* the keys of paths, sorted ascending
RECURSIVE SortedSeq(_)
SortedSeq(S) ==
    IF S = {} THEN <<>>
    ELSE LET m == CHOOSE x \in S : \A y \in S : x <= y
         IN  <<m>> \o SortedSeq(S \ {m})

sizes(photo) == SortedSeq(DOMAIN photo.paths)
default_size(photo) == sizes(photo)[1]
path(photo) == photo.paths[default_size(photo)]
file_name(photo) == name(path(photo))

\* list.sort(key=str): stable, ascending by str(photo) = photo.file_name
RECURSIVE sort_by_str(_)
sort_by_str(list) ==
    IF list = <<>> THEN <<>>
    ELSE LET front == sort_by_str(SubSeq(list, 1, Len(list) - 1))
             x == list[Len(list)]
             n == Cardinality({i \in DOMAIN front : ~StrLess(file_name(x), file_name(front[i]))})
         IN  SubSeq(front, 1, n) \o <<x>> \o SubSeq(front, n + 1, Len(front))

print_statistics(list) ==
    [photo_count |-> Len(list),
     title_count |-> Cardinality({i \in DOMAIN list : list[i].title # None}),
     description_count |-> Cardinality({i \in DOMAIN list : list[i].description # None})]

(***************************************************************************)
(* Spec: the command line run (cli.py), process_photos step by step.       *)
(***************************************************************************)
sizeVars == <<image, max_size, new_size>>
sidecarVars == <<sidecar, title_and_description>>
runVars == <<pc, run, source_readable, source_files, output_format, dirs, created, files,
             queue, exif_data, k, photos, result, stats, error, site_generated, previous>>
vars == <<sizeVars, sidecarVars, runVars>>

SizeIdle == image = <<>> /\ max_size = <<>> /\ new_size = NoValue
SidecarIdle == sidecar = <<>> /\ title_and_description = NoValue
RunIdle ==
    /\ pc = "idle" /\ run = 0 /\ source_readable = FALSE /\ source_files = <<>>
    /\ output_format = <<>> /\ dirs = {} /\ created = <<>> /\ files = <<>>
    /\ queue = <<>> /\ exif_data = {} /\ k = 0 /\ photos = <<>> /\ result = None
    /\ stats = None /\ error = None /\ site_generated = FALSE /\ previous = None

\* what the destination may hold before the run
InitialDirs ==
    { {}, {destination_dir},
      {destination_dir, Join(destination_dir, <<"i", "m", "g">>), target_dirs[1]} }

Init ==
    /\ SizeIdle
    /\ sidecar = <<>> /\ title_and_description = NoValue
    /\ pc = "create_site_directory"
    /\ run = 1
    /\ source_readable \in BOOLEAN
    /\ source_files \in IF source_readable THEN [PhotoNames -> SampleFiles] ELSE {<<>>}
    /\ output_format \in SUPPORTED_OUTPUT_TYPES
    /\ dirs \in InitialDirs
    /\ created = <<>>
    /\ files = <<>>
    /\ queue = <<>>
    /\ exif_data = {}
    /\ k = 1
    /\ photos = <<>>
    /\ result = None
    /\ stats = None
    /\ error = None
    /\ site_generated = FALSE
    /\ previous = None

\* the other order: the source listed before the directories are created
find_photos_first == <<"find_photos", "create_image_directories", "for_source">>

\* process_photos: the order of its steps
process_photos_steps == <<"create_image_directories", "find_photos", "for_source">>

\* where control goes once `step` of process_photos is done, q being the queue
Goto(step, q) ==
    LET next == process_photos_steps[IndexOf(process_photos_steps, step) + 1]
    IN  IF next = "for_source"
        THEN IF q = <<>> THEN "sort" ELSE "read_description_file"
        ELSE next

\* the other policy: a failure while one source is processed skips that source
RaiseOrSkip(kind) ==
    /\ error' = Some(kind)
    /\ IF pc \in {"read_description_file", "read_exif", "resize_images"}
       THEN /\ queue' = Tail(queue)
            /\ k' = 1
            /\ pc' = IF queue' = <<>> THEN "sort" ELSE "read_description_file"
       ELSE /\ pc' = "Aborted"
            /\ UNCHANGED <<queue, k>>
    /\ UNCHANGED <<sizeVars, sidecarVars, run, source_readable, source_files, output_format,
                   dirs, created, files, exif_data, photos, result, stats,
                   site_generated, previous>>

\* an exception: nothing in process_photos catches it, the command line's
\* `except Exception` prints it and "Aborted"
Raise(kind) ==
    /\ error' = Some(kind)
    /\ pc' = "Aborted"
    /\ UNCHANGED <<sizeVars, sidecarVars, run, source_readable, source_files, output_format,
                   dirs, created, files, queue, exif_data, k, photos, result, stats,
                   site_generated, previous>>

\* the directories path.mkdir(parents=True) creates: the missing ones, outermost first
mkdir_creates(p) ==
    SelectSeq([n \in 1..Len(p) |-> SubSeq(p, 1, n)], LAMBDA d : d \notin dirs)

\* create_site_directory(arguments.destination, arguments.force)
CreateSiteDirectory ==
    /\ pc = "create_site_directory"
    /\ \E force \in BOOLEAN, ok \in BOOLEAN :
        IF (destination_dir \in dirs /\ ~force) \/ ~ok
        THEN Raise("IOError")
        ELSE /\ dirs' = {destination_dir}
             /\ files' = <<>>
             /\ created' = <<destination_dir>>
             /\ pc' = process_photos_steps[1]
             /\ UNCHANGED <<sizeVars, sidecarVars, run, source_readable, source_files,
                            output_format, queue, exif_data, k, photos, result, stats,
                            error, site_generated, previous>>

\* create_image_directories: one target.mkdir(parents=True)
CreateImageDirectory ==
    /\ pc = "create_image_directories"
    /\ \E ok \in BOOLEAN :
        IF k \in DOMAIN target_dirs /\ (target_dirs[k] \in dirs \/ ~ok)
        THEN Raise("DirectoryCreationError")
        ELSE /\ IF k \in DOMAIN target_dirs
                THEN /\ dirs' = dirs \cup Range(mkdir_creates(target_dirs[k]))
                     /\ created' = created \o mkdir_creates(target_dirs[k])
                ELSE UNCHANGED <<dirs, created>>
             /\ IF k >= Len(target_dirs)
                THEN /\ pc' = Goto("create_image_directories", queue)
                     /\ k' = 1
                ELSE /\ k' = k + 1
                     /\ UNCHANGED pc
             /\ UNCHANGED <<sizeVars, sidecarVars, run, source_readable, source_files,
                            output_format, files, queue, exif_data, photos, result, stats,
                            error, site_generated, previous>>

\* for source in find_photos(source_dir)
FindPhotos ==
    /\ pc = "find_photos"
    /\ IF ~source_readable
       THEN Raise("DiscoveryError")
       ELSE \E order \in find_photos(source_files) :
            /\ queue' = order
            /\ pc' = Goto("find_photos", order)
            /\ UNCHANGED <<sizeVars, sidecarVars, run, source_readable, source_files,
                           output_format, dirs, created, files, exif_data, k, photos,
                           result, stats, error, site_generated, previous>>

\* title_and_description = read_description_file(source)
SourceDescription ==
    /\ pc = "read_description_file"
    /\ \/ \E file \in SampleSidecars :
            /\ title_and_description' = read_description_file(file)
            /\ pc' = "read_exif"
            /\ UNCHANGED <<sizeVars, sidecar, run, source_readable, source_files,
                           output_format, dirs, created, files, queue, exif_data, k, photos,
                           result, stats, error, site_generated, previous>>
       \/ Raise("SidecarReadError")

\* with open(source, "rb") as file: exif_data = read_exif(file)
SourceExif ==
    /\ pc = "read_exif"
    /\ \/ /\ exif_data' = read_exif(source_files[Head(queue)].exif)
          /\ pc' = "resize_images"
          /\ k' = 1
          /\ UNCHANGED <<sizeVars, sidecarVars, run, source_readable, source_files,
                         output_format, dirs, created, files, queue, photos,
                         result, stats, error, site_generated, previous>>
       \/ Raise("DecodeError")

\* resize_images: one resize_image(file, target, (max_width, max_height), ...)
ResizeImage ==
    /\ pc = "resize_images"
    /\ LET source == Head(queue)
           target == new_name(source, k, output_format)
           size == new_size_of(source_files[source].size, k)
       IN  \/ /\ parent(target) \in dirs
              /\ target \notin dirs
              /\ size[1] >= 1 /\ size[2] >= 1
              /\ files' = [p \in DOMAIN files \cup {target} |->
                              IF p = target
                              THEN [source |-> source, size |-> size, format |-> output_format]
                              ELSE files[p]]
              /\ IF k = Len(TARGET_RESOLUTIONS)
                 THEN pc' = "append" /\ k' = 1
                 ELSE k' = k + 1 /\ UNCHANGED pc
              /\ UNCHANGED <<sizeVars, sidecarVars, run, source_readable, source_files,
                             output_format, dirs, created, queue, exif_data, photos,
                             result, stats, error, site_generated, previous>>
           \/ Raise("EncodeError")

\* photos.append(Photo(title_and_description, destination_dirs, exif_data))
AppendPhoto ==
    /\ pc = "append"
    /\ photos' = Append(photos, Photo(title_and_description,
                                      photo_paths(Head(queue), output_format), exif_data))
    /\ queue' = Tail(queue)
    /\ pc' = IF queue' = <<>> THEN "sort" ELSE "read_description_file"
    /\ title_and_description' = NoValue
    /\ exif_data' = {}
    /\ UNCHANGED <<sizeVars, sidecar, run, source_readable, source_files, output_format,
                   dirs, created, files, k, result, stats, error, site_generated, previous>>

\* photos.sort(key=str); print_statistics(start, photos); return photos
SortAndReturn ==
    /\ pc = "sort"
    /\ photos' = sort_by_str(photos)
    /\ stats' = Some(print_statistics(photos'))
    /\ result' = Some(photos')
    /\ pc' = "generate_site"
    /\ UNCHANGED <<sizeVars, sidecarVars, run, source_readable, source_files, output_format,
                   dirs, created, files, queue, exif_data, k, error, site_generated, previous>>

\* generate_site(arguments.config, photos, destination), then "Done"
GenerateSite ==
    /\ pc = "generate_site"
    /\ \/ /\ site_generated' = TRUE
          /\ pc' = "Done"
          /\ UNCHANGED <<sizeVars, sidecarVars, run, source_readable, source_files,
                         output_format, dirs, created, files, queue, exif_data, k, photos,
                         result, stats, error, previous>>
       \/ Raise("SiteError")

\* the same command run again on the unchanged source, into a fresh destination
SecondRun ==
    /\ pc = "Done"
    /\ run = 1
    /\ run' = 2
    /\ previous' = Some([p \in DOMAIN files |-> files[p].size])
    /\ pc' = "create_site_directory"
    /\ dirs' = {}
    /\ created' = <<>>
    /\ files' = <<>>
    /\ photos' = <<>>
    /\ result' = None
    /\ stats' = None
    /\ site_generated' = FALSE
    /\ UNCHANGED <<sizeVars, sidecarVars, source_readable, source_files, output_format,
                   queue, exif_data, k, error>>

Next ==
    \/ CreateSiteDirectory
    \/ CreateImageDirectory
    \/ FindPhotos
    \/ SourceDescription
    \/ SourceExif
    \/ ResizeImage
    \/ AppendPhoto
    \/ SortAndReturn
    \/ GenerateSite
    \/ SecondRun

Spec == Init /\ [][Next]_vars

(***************************************************************************)
(* SpecSize: get_limited_size applied to one source size and one box.      *)
(***************************************************************************)
MaxDim == 12

ExampleSizes == {<<4000, 3000>>, <<3000, 4000>>, <<700, 1000>>, <<4000, 1>>, <<1, 4000>>}

SourceSizes == ((1..MaxDim) \X (1..MaxDim)) \cup ExampleSizes

Boxes == {TARGET_RESOLUTIONS[i] : i \in DOMAIN TARGET_RESOLUTIONS}

InitSize ==
    /\ image \in SourceSizes
    /\ max_size \in Boxes
    /\ new_size = NoValue
    /\ SidecarIdle
    /\ RunIdle

GetLimitedSize ==
    /\ image # <<>>
    /\ new_size = NoValue
    /\ new_size' = get_limited_size(image, max_size)
    /\ UNCHANGED <<image, max_size, sidecarVars, runVars>>

NextSize == GetLimitedSize

SpecSize == InitSize /\ [][NextSize]_vars

(***************************************************************************)
(* SpecSidecar: read_description_file applied to one sidecar.              *)
(***************************************************************************)
MaxLen == 4

TextAlphabet == {"a", " ", "\n"}

Texts == UNION {[1..n -> TextAlphabet] : n \in 0..MaxLen}

InitSidecar ==
    /\ sidecar \in {<<>>} \cup {<<t>> : t \in Texts}
    /\ title_and_description = NoValue
    /\ SizeIdle
    /\ RunIdle

ReadDescriptionFile ==
    /\ title_and_description = NoValue
    /\ title_and_description' = read_description_file(sidecar)
    /\ UNCHANGED <<sidecar, sizeVars, runVars>>

NextSidecar == ReadDescriptionFile

SpecSidecar == InitSidecar /\ [][NextSidecar]_vars

(***************************************************************************)
(* Claims about the run (Spec).  What the claims expect is written out     *)
(* here on its own, not taken from the operators that model the code.      *)
(***************************************************************************)
TargetWidths == {1920, 1280, 640, 320}

WidthName ==
    [w \in TargetWidths |->
        IF w = 1920 THEN <<"1", "9", "2", "0">>
        ELSE IF w = 1280 THEN <<"1", "2", "8", "0">>
        ELSE IF w = 640 THEN <<"6", "4", "0">>
        ELSE <<"3", "2", "0">>]

\* destinationDir/img/<width>
ExpectedDir(w) == << <<"s", "i", "t", "e">>, <<"i", "m", "g">>, WidthName[w] >>

ExpectedSuffix ==
    IF output_format = <<"J", "P", "E", "G">>
    THEN <<".", "j", "p", "e", "g">>
    ELSE <<".", "w", "e", "b", "p">>

\* <base name of s>.<output format lowercased>, s being x.jpg
ExpectedName(s) == SubSeq(s, 1, Len(s) - 4) \o ExpectedSuffix

\* destinationDir/img/<width>/<base name of s>.<format>
ExpectedPath(s, w) == Append(ExpectedDir(w), ExpectedName(s))

\* the accepted JPEG files of the source directory
Accepted == {s \in DOMAIN source_files : source_files[s].mime = "image/jpeg"}

Returned == result # None

AllTargetDirsExist == \A w \in TargetWidths : ExpectedDir(w) \in dirs

Occurrences(seq, x) == Cardinality({i \in DOMAIN seq : seq[i] = x})

\* C1: after process_photos completes, for every accepted source s and every
\* width w the file destinationDir/img/<w>/<base name of s>.<format> exists and
\* holds the rendition of s: four output files per source, none overwritten by
\* a later source.  The claim as stated.
C1_EverySourceHasFourRenditions ==
    Returned =>
        /\ \A s \in Accepted : \A w \in TargetWidths :
               /\ ExpectedPath(s, w) \in DOMAIN files
               /\ files[ExpectedPath(s, w)].source = s
        /\ Cardinality(DOMAIN files) = 4 * Cardinality(Accepted)

\* C2: the sequence process_photos returns is in ascending lexicographic order
\* of the records' file names, each derived from the record's own source file
\* name: the file names of the returned records are the names derived from the
\* accepted sources, ascending.  The claim as stated.
C2_ReturnedInSourceNameOrder ==
    Returned =>
        LET names == [i \in DOMAIN result[1] |-> file_name(result[1][i])]
        IN  /\ Len(names) = Cardinality(Accepted)
            /\ Range(names) = {ExpectedName(s) : s \in Accepted}
            /\ \A i, j \in DOMAIN names : i < j => StrLess(names[i], names[j])

\* C3: every returned Photo has exactly the four target widths as keys of paths
\* (sizes = [320, 640, 1280, 1920], default_size = 320); paths[w] is the
\* rendition file written for the record's own source at width w; path is
\* paths[320] and file_name its basename.  The claim as stated.
C3_PathsAreTheRenditionFiles ==
    Returned =>
        /\ \A i \in DOMAIN result[1] :
             LET photo == result[1][i]
             IN  /\ DOMAIN photo.paths = TargetWidths
                 /\ sizes(photo) = <<320, 640, 1280, 1920>>
                 /\ default_size(photo) = 320
                 /\ path(photo) = photo.paths[320]
                 /\ \E s \in Accepted :
                       /\ file_name(photo) = ExpectedName(s)
                       /\ \A w \in TargetWidths :
                             /\ photo.paths[w] = ExpectedPath(s, w)
                             /\ photo.paths[w] \in DOMAIN files
                             /\ files[photo.paths[w]].source = s
        /\ Cardinality({file_name(result[1][i]) : i \in DOMAIN result[1]}) = Len(result[1])

\* C4, as stated: a run that ends with a discovery error has created no
\* directory destinationDir/img/<width>.
C4_NoDirectoryBeforeDiscoveryError ==
    error = Some("DiscoveryError") =>
        \A w \in TargetWidths :
            ExpectedDir(w) \notin dirs /\ Occurrences(created, ExpectedDir(w)) = 0

\* C4, amended: a run that ends with a discovery error aborts after all four
\* directories destinationDir/img/<width> were created by it, and before any
\* source file is read or any rendition written: the four directories are left
\* in place, empty, and nothing is returned.
C4_DiscoveryErrorAfterDirectories ==
    error = Some("DiscoveryError") =>
        /\ pc = "Aborted"
        /\ \A w \in TargetWidths :
              ExpectedDir(w) \in dirs /\ Occurrences(created, ExpectedDir(w)) = 1
        /\ DOMAIN files = {}
        /\ photos = <<>>
        /\ title_and_description = NoValue
        /\ result = None
        /\ ~site_generated

\* a run aborted by an unreadable source directory
C4_Witness ==
    /\ pc = "Aborted"
    /\ error = Some("DiscoveryError")
    /\ ~source_readable
    /\ AllTargetDirsExist

ProcessingErrors == {"SidecarReadError", "DecodeError", "EncodeError"}

\* C5: when reading the sidecar, reading EXIF or producing a rendition fails for
\* one source, the run is aborted: nothing is returned (no statistics, no record
\* sequence), generate_site is not called, and no step follows the failure (no
\* retry, no later source).
C5_FailureAbortsTheRun ==
    /\ [](error # None /\ error[1] \in ProcessingErrors =>
            /\ pc = "Aborted"
            /\ result = None
            /\ stats = None
            /\ ~site_generated)
    /\ [][pc # "Aborted"]_vars

\* a rendition fails after one source was processed whole and with sources left
C5_Witness ==
    /\ pc = "Aborted"
    /\ error = Some("EncodeError")
    /\ Len(photos) >= 1
    /\ Len(queue) >= 2
    /\ DOMAIN files # {}

\* C8: the second run on the unchanged source directory, into a fresh
\* destination with the same format, leaves the same output files with the same
\* pixel dimensions as the first, whatever order the listing had in each run.
\* The claim as stated.
C8_SecondRunSameOutput ==
    (run = 2 /\ Returned) =>
        /\ DOMAIN files = DOMAIN previous[1]
        /\ \A p \in DOMAIN files : files[p].size = previous[1][p]

\* C9: each of the four directories destinationDir/img/<width> is created
\* exactly once, all four before the sources are listed and before the first
\* rendition is written; a rendition is written only into a directory that
\* exists and writing one creates no directory; a failure to create a directory
\* aborts the run before any source is read, with the directories created so
\* far left in place.
C9_DirectoriesOnceAndFirst ==
    /\ [](/\ \A w \in TargetWidths : Occurrences(created, ExpectedDir(w)) <= 1
          /\ pc \in {"find_photos", "read_description_file", "read_exif", "resize_images",
                     "append", "sort", "generate_site", "Done"} =>
                \A w \in TargetWidths :
                    ExpectedDir(w) \in dirs /\ Occurrences(created, ExpectedDir(w)) = 1
          /\ DOMAIN files # {} => AllTargetDirsExist
          /\ \A p \in DOMAIN files : parent(p) \in dirs
          /\ error = Some("DirectoryCreationError") =>
                /\ pc = "Aborted"
                /\ queue = <<>> /\ photos = <<>> /\ DOMAIN files = {}
                /\ title_and_description = NoValue
                /\ Range(created) \subseteq dirs)
    /\ [][~(DOMAIN files' \subseteq DOMAIN files) => UNCHANGED <<dirs, created>>]_vars

\* a rendition is about to be written with renditions already in place
C9_Witness ==
    /\ pc = "resize_images"
    /\ DOMAIN files # {}
    /\ AllTargetDirsExist
    /\ Len(created) = 6

(***************************************************************************)
(* Claims about get_limited_size (SpecSize)                                *)
(***************************************************************************)
SizeDone == new_size # NoValue

\* C6: get_limited_size returns (W, floor(W*h/w)) for a landscape source (w > h)
\* and (floor(H*w/h), H) for a portrait or square one, for every source size
\* (w,h) and every box (W,H).  The claim as stated; the float arithmetic of the
\* code falls one short of the exact quotient on some sizes.
C6_ExactQuotient ==
    SizeDone =>
        new_size = IF image[1] > image[2]
                   THEN <<max_size[1], (max_size[1] * image[2]) \div image[1]>>
                   ELSE <<(max_size[2] * image[1]) \div image[2], max_size[2]>>

\* C10, as stated: the computed size fits within the bounding box and both of
\* its dimensions are at least 1.
C10_FitsBoundingBox ==
    SizeDone =>
        /\ 1 <= new_size[1] /\ new_size[1] <= max_size[1]
        /\ 1 <= new_size[2] /\ new_size[2] <= max_size[2]

\* C10, amended: the dimension bound by the orientation equals the box's
\* (width W for a landscape source, height H otherwise) and the derived one is
\* between 0 and the exact scaled value (W*h/w, below W; H*w/h, at most H).  A
\* portrait or square result fits the box; a landscape result is within the
\* box's height whenever W*h/w < H+1; the derived dimension is at least 1
\* exactly when the exact scaled value is.
C10_BindingDimension ==
    SizeDone =>
        LET w == image[1]
            h == image[2]
            W == max_size[1]
            H == max_size[2]
        IN  IF w > h
            THEN /\ new_size[1] = W
                 /\ 0 <= new_size[2] /\ new_size[2] < W
                 /\ new_size[2] * w <= W * h
                 /\ (W * h < (H + 1) * w => new_size[2] <= H)
                 /\ (new_size[2] >= 1 <=> W * h >= w)
            ELSE /\ new_size[2] = H
                 /\ 0 <= new_size[1] /\ new_size[1] <= H /\ new_size[1] <= W
                 /\ new_size[1] * h <= H * w
                 /\ (new_size[1] >= 1 <=> H * w >= h)

\* a landscape source whose computed height exceeds the box's height
C10_Witness ==
    /\ SizeDone
    /\ image[1] > image[2]
    /\ new_size[1] = max_size[1]
    /\ new_size[2] > max_size[2]

(***************************************************************************)
(* Claims about read_description_file (SpecSidecar)                        *)
(***************************************************************************)
\* C7, the value the claim gives for one line: trailing whitespace trimmed,
\* None when nothing is left
TrimmedOrNone(line) == IF rstrip(line) = <<>> THEN None ELSE Some(rstrip(line))

\* C7: a missing sidecar yields (None, None); otherwise the title is the first
\* line with trailing whitespace trimmed, None if that is empty or there is no
\* first line, and the description is the second line treated the same way; a
\* title or description is never the empty string.  The claim as stated.
C7_TrimmedLinesOrNone ==
    title_and_description # NoValue =>
        LET lines == IF sidecar = <<>> THEN <<>> ELSE readlines(sidecar[1])
        IN  /\ title_and_description[1] =
                   IF Len(lines) > 0 THEN TrimmedOrNone(lines[1]) ELSE None
            /\ title_and_description[2] =
                   IF Len(lines) > 1 THEN TrimmedOrNone(lines[2]) ELSE None
            /\ title_and_description[1] # Some(<<>>)
            /\ title_and_description[2] # Some(<<>>)

====
